---- MODULE Spec2Model ----
(***************************************************************************)
(* A model of the pretix-payone payment plugin: the amount codec, the      *)
(* construction of the authorization request, PayoneMethod.execute_payment *)
(* and its credit-card override, the credit-card session handshake, and    *)
(* the return / redirect / webhook views.                                  *)
(*                                                                         *)
(* Text is modelled as a sequence of characters.  Characters of free text  *)
(* (slug, order code, event name) are pairs <<class, index>> so that every *)
(* position is distinguishable; characters of URLs are one-letter strings. *)
(***************************************************************************)
EXTENDS Integers, Sequences, FiniteSets, TLC

VARIABLES
    event,          \* self.event: [slug, name, currency]
    order_code,     \* payment.order.code
    amount,         \* payment.amount, a Decimal [coef, exp] = coef * 10^-exp
    method,         \* the provider's method ("creditcard", "giropay", ...)
    session,        \* request.session: a function from the keys present to their values
    pay_state,      \* payment.state
    pay_info,       \* payment.info
    order_status,   \* order.status of every order of the event
    d,              \* the request parameters built by _get_payment_params
    dec,            \* the Decimal computed by _amount_to_decimal
    res,            \* how the last handler ended (return value, exception, response)
    admitted        \* execute_payment calls started on the created payment, not yet ended

vars == <<event, order_code, amount, method, session, pay_state, pay_info,
          order_status, d, dec, res, admitted>>

\* ------------------------------------------------------------------------
\* Bounds of the model
\* ------------------------------------------------------------------------
MaxSlugLen == 22
MaxCodeLen == 16
MaxNameLen == 82
MaxCoef == 1001
MaxExp == 3
FloatErr == 1
MaxAdmitted == 2

\* ------------------------------------------------------------------------
\* Program constants
\* ------------------------------------------------------------------------
RefMax == 20
NarrMax == 81
DefaultPlaces == 2
\* decimal digits kept of a float quotient beyond the currency's places
GuardDigits == 2

Min(a, b) == IF a < b THEN a ELSE b
Max(a, b) == IF a > b THEN a ELSE b

RECURSIVE Pow10(_)
Pow10(n) == IF n <= 0 THEN 1 ELSE 10 * Pow10(n - 1)

\* ------------------------------------------------------------------------
\* Amount codec
\* ------------------------------------------------------------------------
\* settings.CURRENCY_PLACES.get(currency, 2)
CURRENCY_PLACES(currency) ==
    CASE currency = "JPY" -> 0
      [] currency = "BHD" -> 3
      [] OTHER -> DefaultPlaces

\* Python's int(): truncation toward zero of num / den, den > 0
TruncDiv(num, den) == IF num >= 0 THEN num \div den ELSE -((-num) \div den)

\* int(amount * 10 ** places)
DecimalToIntPlaces2(amt, currency) ==
    TruncDiv(amt.coef * Pow10(DefaultPlaces), Pow10(amt.exp))

_decimal_to_int(amt, currency) ==
    TruncDiv(amt.coef * Pow10(CURRENCY_PLACES(currency)), Pow10(amt.exp))

\* float(cents) / (10 ** places): the double nearest to the quotient, kept here to
\* places + GuardDigits decimal digits; err is the double's distance from the exact
\* quotient in units of the last kept digit.
FloatQuotient(cents, err) == cents * Pow10(GuardDigits) + err

\* round_decimal(): Decimal(x).quantize(10^-places, ROUND_HALF_UP), of a value given
\* to places + GuardDigits digits
round_decimal(scaled, currency) ==
    [coef |-> IF scaled >= 0
                THEN (2 * scaled + Pow10(GuardDigits)) \div (2 * Pow10(GuardDigits))
                ELSE -((2 * (-scaled) + Pow10(GuardDigits)) \div (2 * Pow10(GuardDigits))),
     exp |-> CURRENCY_PLACES(currency)]

_amount_to_decimal(cents, currency, err) ==
    round_decimal(FloatQuotient(cents, err), currency)

\* Decimal equality is numeric: 10.0 == 10.00
DecEq(a, b) == a.coef * Pow10(b.exp) = b.coef * Pow10(a.exp)

\* amt has no digit beyond the currency's places
Representable(amt, currency) ==
    (amt.coef * Pow10(CURRENCY_PLACES(currency))) % Pow10(amt.exp) = 0

\* ------------------------------------------------------------------------
\* Request construction
\* ------------------------------------------------------------------------
SlugOf(n) == [i \in 1..n |-> <<"s", i>>]
CodeOf(n) == [i \in 1..n |-> <<"c", i>>]
NameOf(n) == [i \in 1..n |-> <<"n", i>>]
Dash == << <<"-", 0>> >>
Space == << <<" ", 0>> >>

\* Python's s[:n], n of either sign
SliceTo(s, n) ==
    IF n >= 0 THEN SubSeq(s, 1, Min(n, Len(s)))
              ELSE SubSeq(s, 1, Max(Len(s) + n, 0))

\* "{ev}-{code}".format(ev=slug[: 20 - 1 - len(code)], code=code)
ReferenceOffByOne(slug, code) == SliceTo(slug, RefMax - Len(code)) \o Dash \o code

Reference(slug, code) == SliceTo(slug, RefMax - 1 - Len(code)) \o Dash \o code

\* "{code} {event}".format(code=code, event=str(name)[: 81 - 1 - len(code)])
NarrativeText(name, code) == code \o Space \o SliceTo(name, NarrMax - 1 - Len(code))

Clearingtype(m) ==
    CASE m = "creditcard" -> "cc"
      [] m = "giropay" -> "sb"
      [] m = "sepadebit" -> "elv"
      [] m = "paypal" -> "wlt"

NoParams ==
    [request |-> "none", reference |-> <<>>, amount |-> 0, currency |-> "",
     narrative_text |-> <<>>, clearingtype |-> "", pseudocardpan |-> "",
     cardholder |-> ""]

\* PayoneMethod._get_payment_params
BaseParams(ev, code, amt, m) ==
    [request |-> "authorization",
     reference |-> Reference(ev.slug, code),
     amount |-> _decimal_to_int(amt, ev.currency),
     currency |-> ev.currency,
     narrative_text |-> NarrativeText(ev.name, code),
     clearingtype |-> Clearingtype(m),
     pseudocardpan |-> "",
     cardholder |-> ""]

NoDec == [coef |-> 0, exp |-> 0]

\* ------------------------------------------------------------------------
\* The session: a function from the keys that are present to their values
\* ------------------------------------------------------------------------
EmptySession == [k \in {} |-> ""]
SessionGet(s, k, default) == IF k \in DOMAIN s THEN s[k] ELSE default
SessionSet(s, k, v) == [x \in (DOMAIN s) \cup {k} |-> IF x = k THEN v ELSE s[x]]
SessionPop(s, k) == [x \in (DOMAIN s) \ {k} |-> s[x]]

CardKeys ==
    {"payment_payone_pseudocardpan", "payment_payone_truncatedcardpan",
     "payment_payone_cardtypeResponse", "payment_payone_cardexpiredateResponse",
     "payment_payone_cardholder"}

\* ------------------------------------------------------------------------
\* Orders and payments of the event (owned by the platform)
\* ------------------------------------------------------------------------
Methods == {"creditcard", "giropay", "sepadebit", "paypal"}
Orders == {"A", "B"}
Secret(o) == IF o = "A" THEN "seca" ELSE "secb"

\* payment pk -> [order, provider]; payment 1 is the payment being executed
Payments(m) ==
    [pk \in {1, 2, 4} |->
        CASE pk = 1 -> [order |-> "A", provider |-> <<"payone", m>>]
          [] pk = 2 -> [order |-> "B", provider |-> <<"payone", "giropay">>]
          [] pk = 4 -> [order |-> "A", provider |-> <<"banktransfer", "">>]]

\* hashlib.sha1(s.encode()).hexdigest(), on the strings the model hashes
Sha1Hex(s) ==
    CASE s = "seca" -> "ha"
      [] s = "secb" -> "hb"
      [] s = "abcdefghijklmnopq" -> "hd"
      [] OTHER -> "h0"

\* str.lower() on the secrets and hex digests of the model
Lower(s) ==
    CASE s = "HA" -> "ha"
      [] s = "HB" -> "hb"
      [] OTHER -> s

\* ------------------------------------------------------------------------
\* URLs, quoting and signing
\* ------------------------------------------------------------------------
Sep == <<":">>

\* the keyed signature of django.core.signing.Signer(salt="safe-redirect"):
\* a text over the signature alphabet, which holds no separator
Mac(c) ==
    CASE c = "b" -> "B"
      [] c = ":" -> "C"
      [] c = "%" -> "P"
      [] c = "x" -> "X"
      [] c = "e" -> "E"
      [] OTHER -> "Z"
Signature(v) == [i \in 1..Len(v) |-> Mac(v[i])]

\* Signer.sign
Sign(v) == v \o Sep \o Signature(v)

LastSep(v) ==
    LET S == {i \in 1..Len(v) : v[i] = ":"}
    IN IF S = {} THEN 0 ELSE CHOOSE i \in S : \A j \in S : j <= i

BadSignature == [ok |-> FALSE, value |-> <<>>]

\* Signer.unsign: rsplit on the last separator, then compare the signature
Unsign(sv) ==
    IF LastSep(sv) = 0 THEN BadSignature
    ELSE LET value == SubSeq(sv, 1, LastSep(sv) - 1)
             sig == SubSeq(sv, LastSep(sv) + 1, Len(sv))
         IN IF sig = Signature(value) THEN [ok |-> TRUE, value |-> value]
                                      ELSE BadSignature

\* urllib.parse.quote: the separator and the percent sign are escaped
RECURSIVE Quote(_)
Quote(v) ==
    IF v = <<>> THEN <<>>
    ELSE (CASE Head(v) = ":" -> <<"%", "3A">>
            [] Head(v) = "%" -> <<"%", "25">>
            [] OTHER -> <<Head(v)>>) \o Quote(Tail(v))

\* the decoding of a query value by the framework
RECURSIVE Unquote(_)
Unquote(q) ==
    IF q = <<>> THEN <<>>
    ELSE IF Head(q) = "%" /\ Len(q) >= 2 /\ q[2] = "3A" THEN <<":">> \o Unquote(SubSeq(q, 3, Len(q)))
    ELSE IF Head(q) = "%" /\ Len(q) >= 2 /\ q[2] = "25" THEN <<"%">> \o Unquote(SubSeq(q, 3, Len(q)))
    ELSE <<Head(q)>> \o Unquote(Tail(q))

\* build_absolute_uri(request.event, "plugins:pretix_payone:redirect") + "?url="
RedirectEndpoint == <<"/payone/redirect/", "?url=">>

\* PayoneMethod.redirect
RedirectUnsigned(sess, url) ==
    IF SessionGet(sess, "iframe_session", "False") = "True"
    THEN RedirectEndpoint \o Quote(url)
    ELSE url

redirect(sess, url) ==
    IF SessionGet(sess, "iframe_session", "False") = "True"
    THEN RedirectEndpoint \o Quote(Sign(url))
    ELSE url

\* ------------------------------------------------------------------------
\* Gateway replies to the single POST of execute_payment
\* ------------------------------------------------------------------------
GatewayUrls == {<<"b", ":", "x">>, <<"b", "%">>}

Reply(kind, status, hasurl, url, err, em) ==
    [kind |-> kind, Status |-> status, HasRedirectUrl |-> hasurl, RedirectUrl |-> url,
     Error |-> err, ErrorMessage |-> em]

NoReply == Reply("none", "absent", FALSE, <<>>, "absent", "absent")

\* kind: how the POST went; Status "absent": the body has no Status key;
\* Error "absent" / "empty" / "cm": no Error object / one without / one with
\* CustomerMessage; ErrorMessage "absent" / "em": the top-level key.
GatewayReplies ==
    {Reply(k, "absent", FALSE, <<>>, "absent", "absent") :
        k \in {"conn_error", "http_error_json", "http_error_text", "ok_unparseable"}}
    \cup {Reply("ok_json", st, FALSE, <<>>, "absent", "absent") :
        st \in {"APPROVED", "PENDING", "FOO", "absent", "REDIRECT"}}
    \cup {Reply("ok_json", "REDIRECT", TRUE, u, "absent", "absent") : u \in GatewayUrls}
    \cup {Reply("ok_json", "ERROR", FALSE, <<>>, e, m) :
        e \in {"absent", "empty", "cm"}, m \in {"absent", "em"}}

CustomerMessage == "Card expired"
ErrorMessage == "Limit exceeded"

\* data["Error"].get("CustomerMessage", data.get("ErrorMessage", "Unknown error"))
\* for a body that has an Error object
ErrorText(reply) ==
    IF reply.Error = "cm" THEN CustomerMessage
    ELSE IF reply.ErrorMessage = "em" THEN ErrorMessage
    ELSE "Unknown error"

CommunicationMsg == <<"communication">>
DeclinedMsg(text) == <<"declined", text>>

\* ------------------------------------------------------------------------
\* The payment record: [state, info]
\* ------------------------------------------------------------------------
NoInfo == [fmt |-> "none", data |-> NoReply]

\* OrderPayment.fail(info=...): a payment that is neither created nor pending is left
\* alone
PaymentFail(pay, info) ==
    IF pay.state \in {"created", "pending"}
    THEN [state |-> "failed", info |-> info]
    ELSE pay

\* OrderPayment.confirm()
PaymentConfirm(pay) == [pay EXCEPT !.state = "confirmed"]

\* ------------------------------------------------------------------------
\* execute_payment
\* ------------------------------------------------------------------------
Outcome(sess, pay, exc, msg, retkind, ret, posted, params, confirmed) ==
    [session |-> sess, pay |-> pay, exc |-> exc, msg |-> msg, retkind |-> retkind,
     ret |-> ret, posted |-> posted, d |-> params, confirmed |-> confirmed]

\* PayoneCC._get_payment_params: the fields read from the session
CCParams(params, sess) ==
    [params EXCEPT !.pseudocardpan = sess["payment_payone_pseudocardpan"],
                   !.cardholder = SessionGet(sess, "payment_payone_cardholder", "")]

SaveStateOnly(pay, reply) == [pay EXCEPT !.state = "created"]

\* lines 363-365: payment.info = json.dumps(data), payment.state = CREATED, save()
SaveReply(pay, reply) ==
    [pay EXCEPT !.info = [fmt |-> "json", data |-> reply], !.state = "created"]

\* lines 361-383: the parsed body is stored, then the Status is interpreted
Interpret(sess, pay, reply, params, order) ==
    LET saved == SaveReply(pay, reply)
    IN CASE reply.Status = "absent" ->
              Outcome(sess, saved, "KeyError", <<>>, "None", <<>>, TRUE, params, FALSE)
         [] reply.Status = "APPROVED" ->
              Outcome(sess, PaymentConfirm(saved), "none", <<>>, "None", <<>>, TRUE, params, TRUE)
         [] reply.Status = "REDIRECT" ->
              LET s2 == SessionSet(sess, "payment_payone_order_secret", Secret(order))
              IN IF reply.HasRedirectUrl
                 THEN Outcome(s2, saved, "none", <<>>, "url", redirect(s2, reply.RedirectUrl),
                              TRUE, params, FALSE)
                 ELSE Outcome(s2, saved, "KeyError", <<>>, "None", <<>>, TRUE, params, FALSE)
         [] reply.Status = "ERROR" ->
              IF reply.Error = "absent"
              THEN Outcome(sess, PaymentFail(saved, saved.info), "KeyError", <<>>, "None", <<>>,
                           TRUE, params, FALSE)
              ELSE Outcome(sess, PaymentFail(saved, saved.info), "PaymentException",
                           DeclinedMsg(ErrorText(reply)), "None", <<>>, TRUE, params, FALSE)
         [] reply.Status = "PENDING" ->
              Outcome(sess, [saved EXCEPT !.state = "pending"], "none", <<>>, "None", <<>>,
                      TRUE, params, FALSE)
         [] OTHER ->
              Outcome(sess, saved, "none", <<>>, "None", <<>>, TRUE, params, FALSE)

\* PayoneMethod.execute_payment
ExecBase(m, sess, pay, reply, ev, code, amt, order) ==
    IF m = "creditcard" /\ "payment_payone_pseudocardpan" \notin DOMAIN sess
    THEN Outcome(sess, pay, "KeyError", <<>>, "None", <<>>, FALSE, NoParams, FALSE)
    ELSE
    LET base == BaseParams(ev, code, amt, m)
        params == IF m = "creditcard" THEN CCParams(base, sess) ELSE base
    IN CASE reply.kind = "conn_error" ->
              Outcome(sess, pay, "ConnectionError", <<>>, "None", <<>>, TRUE, params, FALSE)
         [] reply.kind = "http_error_json" ->
              Outcome(sess, PaymentFail(pay, [fmt |-> "json", data |-> reply]),
                      "PaymentException", CommunicationMsg, "None", <<>>, TRUE, params, FALSE)
         [] reply.kind = "http_error_text" ->
              Outcome(sess, PaymentFail(pay, [fmt |-> "error_detail", data |-> reply]),
                      "PaymentException", CommunicationMsg, "None", <<>>, TRUE, params, FALSE)
         [] reply.kind = "ok_unparseable" ->
              Outcome(sess, pay, "JSONDecodeError", <<>>, "None", <<>>, TRUE, params, FALSE)
         [] OTHER -> Interpret(sess, pay, reply, params, order)

PopPanOnly(sess) == SessionPop(sess, "payment_payone_pseudocardpan")

\* the finally block of PayoneCC.execute_payment
PopCardFields(sess) == [k \in (DOMAIN sess) \ CardKeys |-> sess[k]]

\* PayoneCC.execute_payment: the result of super().execute_payment is not returned
CCExecute(r) ==
    [r EXCEPT !.session = PopCardFields(r.session), !.retkind = "None", !.ret = <<>>]

ExecutePayment(m, sess, pay, reply, ev, code, amt, order) ==
    IF m = "creditcard"
    THEN CCExecute(ExecBase(m, sess, pay, reply, ev, code, amt, order))
    ELSE ExecBase(m, sess, pay, reply, ev, code, amt, order)

\* ------------------------------------------------------------------------
\* Views
\* ------------------------------------------------------------------------
NoReq == [order |-> "", payment |-> 0, hash |-> "", action |-> "", hasurl |-> FALSE,
          query |-> <<>>]

Res(op) ==
    [op |-> op, exc |-> "none", msg |-> <<>>, retkind |-> "None", ret |-> <<>>,
     response |-> "", location |-> <<>>, reply |-> NoReply, posted |-> FALSE,
     pre |-> EmptySession, req |-> NoReq]

\* redirect_view: the url parameter is unsigned, a bad signature is a bad request
RedirectView(hasurl, query) ==
    LET u == Unsign(IF hasurl THEN Unquote(query) ELSE <<>>)
    IN IF u.ok THEN [response |-> "200", location |-> u.value]
               ELSE [response |-> "400", location |-> <<>>]

\* PayoneOrderView.dispatch: the order lookup and the comparison of the hash
OrderViewDispatch(order, hash) ==
    IF order \notin Orders THEN "404"
    ELSE IF Sha1Hex(Lower(Secret(order))) # Lower(hash) THEN "404"
    ELSE "dispatch"

\* PayoneOrderView.payment: get_object_or_404(order.payments, pk=..., provider__startswith="payone")
PaymentLookup(m, order, pk) ==
    /\ pk \in DOMAIN Payments(m)
    /\ Payments(m)[pk].order = order
    /\ Payments(m)[pk].provider[1] = "payone"

\* ReturnView.get: the body is a placeholder, no response is built
ReturnViewGet(m, sess, order, pk, hash, status) ==
    IF OrderViewDispatch(order, hash) = "404"
    THEN [response |-> "404", location |-> <<>>, msg |-> <<>>]
    ELSE [response |-> "None", location |-> <<>>, msg |-> <<>>]

EventIndex == <<"presale:event.index">>
OrderPage(order) == <<"presale:event.order", order, Secret(order)>>

\* ReturnView._redirect_to_order
RedirectToOrder(sess, order, status) ==
    IF SessionGet(sess, "payment_payone_order_secret", "None") # Secret(order)
    THEN [response |-> "302", location |-> EventIndex, msg |-> <<"error-session">>]
    ELSE [response |-> "302",
          location |-> OrderPage(order) \o (IF status = "p" THEN <<"?paid=yes">> ELSE <<>>),
          msg |-> <<>>]

\* ------------------------------------------------------------------------
\* Initial states
\* ------------------------------------------------------------------------
TenEuro == [coef |-> 1000, exp |-> 2]

InitWith(ev, code, amt, ms, sessions) ==
    /\ event = ev
    /\ order_code = code
    /\ amount = amt
    /\ method \in ms
    /\ session \in sessions
    /\ pay_state = "created"
    /\ pay_info = NoInfo
    /\ order_status = [o \in Orders |-> "n"]
    /\ d = NoParams
    /\ dec = NoDec
    /\ res = Res("init")
    /\ admitted = 0

Init ==
    InitWith([slug |-> SlugOf(4), name |-> NameOf(6), currency |-> "EUR"], CodeOf(5), TenEuro,
             Methods, {EmptySession, SessionSet(EmptySession, "iframe_session", "True")})

\* ------------------------------------------------------------------------
\* Handlers
\* ------------------------------------------------------------------------
\* PayoneCC.payment_prepare / PayoneMethod.payment_prepare
payment_prepare(ppan, holder) ==
    /\ pay_state = "created"
    /\ IF method # "creditcard"
       THEN /\ session' = session
            /\ res' = [Res("payment_prepare") EXCEPT !.retkind = "True", !.pre = session]
       ELSE IF ppan # ""
       THEN /\ session' =
                  SessionSet(SessionSet(SessionSet(SessionSet(SessionSet(session,
                      "payment_payone_pseudocardpan", ppan),
                      "payment_payone_truncatedcardpan", "4111"),
                      "payment_payone_cardtypeResponse", "V"),
                      "payment_payone_cardexpiredateResponse", "2912"),
                      "payment_payone_cardholder", holder)
            /\ res' = [Res("payment_prepare") EXCEPT !.retkind = "True", !.pre = session]
       ELSE IF "payment_payone_pseudocardpan" \notin DOMAIN session
       THEN /\ session' = session
            /\ res' = [Res("payment_prepare") EXCEPT !.exc = "KeyError", !.pre = session]
       ELSE IF session["payment_payone_pseudocardpan"] = ""
       THEN /\ session' = session
            /\ res' = [Res("payment_prepare") EXCEPT !.retkind = "False",
                                                      !.msg = <<"warning-javascript">>,
                                                      !.pre = session]
       ELSE /\ session' = session
            /\ res' = [Res("payment_prepare") EXCEPT !.retkind = "True", !.pre = session]
    /\ UNCHANGED <<admitted, event, order_code, amount, method, pay_state, pay_info, order_status, d, dec>>

\* PayoneCC.payment_is_valid_session / PayoneMethod.payment_is_valid_session
payment_is_valid_session ==
    /\ res' = [Res("payment_is_valid_session") EXCEPT
                 !.retkind = IF method = "creditcard"
                                /\ SessionGet(session, "payment_payone_pseudocardpan", "") = ""
                             THEN "False" ELSE "True",
                 !.pre = session]
    /\ UNCHANGED <<admitted, event, order_code, amount, method, session, pay_state, pay_info,
                   order_status, d, dec>>

\* execute_payment of the provider of payment 1 (order A), from its first line to
\* its end
RunExecutePayment(reply) ==
    /\ LET r == ExecutePayment(method, session, [state |-> pay_state, info |-> pay_info],
                               reply, event, order_code, amount, "A")
       IN /\ session' = r.session
          /\ pay_state' = r.pay.state
          /\ pay_info' = r.pay.info
          /\ order_status' = IF r.confirmed THEN [order_status EXCEPT !["A"] = "p"]
                                            ELSE order_status
          /\ d' = r.d
          /\ res' = [Res("execute_payment") EXCEPT
                       !.exc = r.exc, !.msg = r.msg, !.retkind = r.retkind, !.ret = r.ret,
                       !.reply = reply, !.posted = r.posted, !.pre = session]
    /\ UNCHANGED <<event, order_code, amount, method, dec>>

\* a call by the platform, which calls execute_payment on a payment in state created
execute_payment(reply) ==
    /\ pay_state = "created"
    /\ RunExecutePayment(reply)
    /\ UNCHANGED admitted

\* GET /return/{order}/{payment}/{hash}/{action}
return_view(order, pk, hash, action) ==
    /\ LET r == ReturnViewGet(method, session, order, pk, hash,
                              IF order \in Orders THEN order_status[order] ELSE "n")
       IN res' = [Res("return") EXCEPT
                    !.response = r.response, !.location = r.location, !.msg = r.msg,
                    !.pre = session,
                    !.req = [NoReq EXCEPT !.order = order, !.payment = pk, !.hash = hash,
                                          !.action = action]]
    /\ UNCHANGED <<admitted, event, order_code, amount, method, session, pay_state, pay_info,
                   order_status, d, dec>>

\* GET /redirect?url=...
redirect_view(hasurl, query) ==
    /\ LET r == RedirectView(hasurl, query)
       IN res' = [Res("redirect_view") EXCEPT
                    !.response = r.response, !.location = r.location,
                    !.req = [NoReq EXCEPT !.hasurl = hasurl, !.query = query]]
    /\ UNCHANGED <<admitted, event, order_code, amount, method, session, pay_state, pay_info,
                   order_status, d, dec>>

\* POST /webhook/{payment}: acknowledged, nothing else is done
webhook_post(pk) ==
    /\ res' = [Res("webhook") EXCEPT !.response = "200", !.req = [NoReq EXCEPT !.payment = pk]]
    /\ UNCHANGED <<admitted, event, order_code, amount, method, session, pay_state, pay_info,
                   order_status, d, dec>>

\* what a browser may send to the redirect endpoint: signed, unsigned and tampered
\* values, and values signed for another url
QueryInputs ==
    {Quote(Sign(u)) : u \in GatewayUrls}
    \cup {Quote(u) : u \in GatewayUrls \cup {<<"e">>, <<>>}}
    \cup {Quote(u \o Sep \o Signature(v)) : u \in {<<"e">>}, v \in GatewayUrls}
    \cup {Sign(<<"b", ":", "x">>), Sep}

HashInputs == {"ha", "hb", "HA"}

Next ==
    \/ \E ppan \in {"", "tok"} : payment_prepare(ppan, "Ann")
    \/ payment_is_valid_session
    \/ \E reply \in GatewayReplies : execute_payment(reply)
    \/ \E order \in Orders \cup {"Z"}, pk \in {1, 2, 4}, hash \in HashInputs :
          return_view(order, pk, hash, "success")
    \/ \E action \in {"error", "cancel"} : return_view("A", 1, "ha", action)
    \/ \E query \in QueryInputs : redirect_view(TRUE, query)
    \/ redirect_view(FALSE, <<>>)
    \/ \E pk \in {1, 9} : webhook_post(pk)

Spec == Init /\ [][Next]_vars

\* ------------------------------------------------------------------------
\* The request builder and the amount codec on their own
\* ------------------------------------------------------------------------
\* PayoneMethod._get_payment_params, applied to the payment of the initial state
get_payment_params ==
    /\ res.op = "init"
    /\ d' = BaseParams(event, order_code, amount, method)
    /\ res' = Res("_get_payment_params")
    /\ UNCHANGED <<admitted, event, order_code, amount, method, session, pay_state, pay_info,
                   order_status, dec>>

\* PayoneMethod._amount_to_decimal, applied to the minor units of the built request
amount_to_decimal(err) ==
    /\ res.op = "_get_payment_params"
    /\ dec' = _amount_to_decimal(d.amount, event.currency, err)
    /\ res' = Res("_amount_to_decimal")
    /\ UNCHANGED <<admitted, event, order_code, amount, method, session, pay_state, pay_info,
                   order_status, d>>

\* every event slug, order code and event name up to the bounds
InitParams ==
    \E n \in 0..MaxSlugLen, c \in 1..MaxCodeLen, k \in 0..MaxNameLen :
        InitWith([slug |-> SlugOf(n), name |-> NameOf(k), currency |-> "EUR"], CodeOf(c),
                 TenEuro, {"giropay"}, {EmptySession})

SpecParams == InitParams /\ [][get_payment_params]_vars

Currencies == {"EUR", "JPY", "BHD"}

\* every currency and every amount up to the bounds
InitCodec ==
    \E coef \in 0..MaxCoef, exp \in 0..MaxExp, cur \in Currencies :
        InitWith([slug |-> SlugOf(4), name |-> NameOf(6), currency |-> cur], CodeOf(5),
                 [coef |-> coef, exp |-> exp], {"giropay"}, {EmptySession})

NextCodec ==
    \/ get_payment_params
    \/ \E err \in (-FloatErr)..FloatErr : amount_to_decimal(err)

SpecCodec == InitCodec /\ [][NextCodec]_vars

\* ------------------------------------------------------------------------
\* Overlapping calls: execute_payment blocks in its POST and takes no lock, so a
\* second request for the same created payment can be let in before the first ends
\* ------------------------------------------------------------------------
\* the platform finds the payment created and calls execute_payment, which blocks
admit_execute_payment ==
    /\ pay_state = "created"
    /\ admitted < MaxAdmitted
    /\ admitted' = admitted + 1
    /\ UNCHANGED <<event, order_code, amount, method, session, pay_state, pay_info,
                   order_status, d, dec, res>>

\* the gateway's reply arrives and the call runs to its end, on the payment record
\* as it is by then
execute_payment_admitted(reply) ==
    /\ admitted > 0
    /\ admitted' = admitted - 1
    /\ RunExecutePayment(reply)

\* methods whose request is built without the session (the credit card reads its
\* token from the session before the POST)
InitOverlap ==
    InitWith([slug |-> SlugOf(4), name |-> NameOf(6), currency |-> "EUR"], CodeOf(5), TenEuro,
             Methods \ {"creditcard"},
             {EmptySession, SessionSet(EmptySession, "iframe_session", "True")})

NextOverlap ==
    \/ admit_execute_payment
    \/ \E reply \in GatewayReplies : execute_payment_admitted(reply)
    \/ return_view("A", 1, "ha", "success")
    \/ \E pk \in {1, 9} : webhook_post(pk)

SpecOverlap == InitOverlap /\ [][NextOverlap]_vars

\* ------------------------------------------------------------------------
\* Properties
\* ------------------------------------------------------------------------
\* the last handler was execute_payment and its POST got a parsed JSON body
ParsedReply ==
    res.op = "execute_payment" /\ res.posted /\ res.reply.kind = "ok_json"

KnownStatuses == {"APPROVED", "REDIRECT", "ERROR", "PENDING"}

\* C1: for a parsed gateway response execute_payment follows the status table:
\* APPROVED ends Confirmed with nothing returned, PENDING ends Pending, ERROR ends
\* Failed, and REDIRECT leaves the payment Created and returns a URL.
C1_StatusTable ==
    ParsedReply =>
        /\ res.reply.Status = "APPROVED" =>
              pay_state = "confirmed" /\ res.retkind = "None" /\ res.exc = "none"
        /\ res.reply.Status = "PENDING" => pay_state = "pending"
        /\ res.reply.Status = "ERROR" => pay_state = "failed"
        /\ (res.reply.Status = "REDIRECT" /\ res.reply.HasRedirectUrl) =>
              pay_state = "created" /\ res.retkind = "url" /\ res.ret # <<>>

\* C2: only the four known statuses yield a transition, and a response with any
\* other Status does not end execute_payment like a successful attempt (a normal
\* return without an error).
C2_UnknownStatusNotSuccess ==
    (ParsedReply /\ res.reply.Status \notin KnownStatuses) =>
        pay_state = "created" /\ res.exc # "none"

\* C3: however the POST goes wrong (no connection, a non-2xx status, a body that
\* cannot be parsed), execute_payment records the diagnostic info, marks the
\* payment Failed and raises the communication PaymentException; nothing else
\* escapes.
C3_CommunicationFailure ==
    (res.op = "execute_payment" /\ res.posted
     /\ res.reply.kind \in {"conn_error", "http_error_json", "http_error_text", "ok_unparseable"})
    => /\ res.exc = "PaymentException"
       /\ res.msg = CommunicationMsg
       /\ pay_state = "failed"
       /\ pay_info.fmt # "none"

\* C4: after a credit-card execute_payment has ended, on whatever exit path, none
\* of the card-token fields is left in the session.
C4_CardFieldsCleared ==
    (res.op = "execute_payment" /\ method = "creditcard") =>
        (DOMAIN session) \cap CardKeys = {}

\* an exit by a raw exception, with all five card fields in the session before
C4_Witness ==
    /\ res.op = "execute_payment" /\ method = "creditcard"
    /\ CardKeys \subseteq DOMAIN res.pre
    /\ res.exc = "ConnectionError"
    /\ (DOMAIN session) \cap CardKeys = {}

\* the three lookups of a return request
UnknownOrder == res.req.order \notin Orders
WrongHash == res.req.order \in Orders /\ Lower(res.req.hash) # Sha1Hex(Secret(res.req.order))
WrongPayment ==
    res.req.order \in Orders /\ ~PaymentLookup(method, res.req.order, res.req.payment)

\* C5: a return request is answered NotFound when the order is unknown, when the
\* hash is not the hash of the order's secret, and when the payment id names no
\* payone payment of the order.
C5_ReturnNotFound ==
    (res.op = "return" /\ (UnknownOrder \/ WrongHash \/ WrongPayment)) =>
        res.response = "404"

\* C6: a return request with a valid order, payment and hash is answered with a
\* redirect: to the event index with a warning when the session's secret is not the
\* order's, else to the order page, with the paid indicator exactly for a paid order.
C6_ReturnRedirects ==
    (res.op = "return" /\ ~UnknownOrder /\ ~WrongHash /\ ~WrongPayment) =>
        LET want == RedirectToOrder(res.pre, res.req.order, order_status[res.req.order])
        IN /\ res.response = "302"
           /\ res.location = want.location
           /\ res.msg = want.msg

IframeSession(sess) == SessionGet(sess, "iframe_session", "False") = "True"

\* the values a signed text could be the signature of: its prefixes
Prefixes(v) == {SubSeq(v, 1, k) : k \in 0..Len(v)}

\* C7: in an iframe session the URL execute_payment returns for a REDIRECT is the
\* redirect endpoint carrying the signed RedirectUrl (which the endpoint forwards
\* to), never the raw URL; without the flag it is the raw URL; and the endpoint
\* forwards only to a url whose signature verifies, answering bad request otherwise.
C7_RedirectSafety ==
    /\ (ParsedReply /\ res.reply.Status = "REDIRECT" /\ res.retkind = "url") =>
          IF IframeSession(res.pre)
          THEN /\ res.ret = RedirectEndpoint \o Quote(Sign(res.reply.RedirectUrl))
               /\ res.ret # res.reply.RedirectUrl
               /\ RedirectView(TRUE, SubSeq(res.ret, Len(RedirectEndpoint) + 1, Len(res.ret)))
                     = [response |-> "200", location |-> res.reply.RedirectUrl]
          ELSE res.ret = res.reply.RedirectUrl
    /\ (ParsedReply /\ res.reply.Status = "REDIRECT" /\ res.reply.HasRedirectUrl
        /\ method # "creditcard") => res.retkind = "url"
    /\ res.op = "redirect_view" =>
          /\ res.response \in {"200", "400"}
          /\ res.response = "200" =>
                res.req.hasurl /\ Unquote(res.req.query) = Sign(res.location)
          /\ res.response = "400" =>
                \/ ~res.req.hasurl
                \/ \A v \in Prefixes(Unquote(res.req.query)) : Unquote(res.req.query) # Sign(v)

\* a signed redirect was returned in an iframe session
C7_Witness ==
    /\ ParsedReply /\ res.reply.Status = "REDIRECT" /\ res.retkind = "url"
    /\ IframeSession(res.pre)
    /\ res.ret = RedirectEndpoint \o Quote(Sign(res.reply.RedirectUrl))

\* C8: the built reference is at most 20 characters and the narrative_text at most
\* 81; the order code is kept whole and the slug, respectively the event name, is
\* cut from the right, and only as far as needed.
C8_Truncation ==
    d.request = "authorization" =>
        LET c == Len(order_code)
            r == d.reference
            t == d.narrative_text
        IN /\ Len(r) <= RefMax
           /\ Len(t) <= NarrMax
           /\ SubSeq(r, Len(r) - c, Len(r)) = Dash \o order_code
           /\ SubSeq(r, 1, Len(r) - c - 1) = SubSeq(event.slug, 1, Len(r) - c - 1)
           /\ Len(r) = Min(RefMax, Len(event.slug) + 1 + c)
           /\ SubSeq(t, 1, c + 1) = order_code \o Space
           /\ SubSeq(t, c + 2, Len(t)) = SubSeq(event.name, 1, Len(t) - c - 1)
           /\ Len(t) = Min(NarrMax, Len(event.name) + 1 + c)

\* a slug and a name that both had to be cut
C8_Witness ==
    /\ d.request = "authorization"
    /\ Len(event.slug) + 1 + Len(order_code) > RefMax
    /\ Len(d.reference) = RefMax
    /\ Len(event.name) + 1 + Len(order_code) > NarrMax
    /\ Len(d.narrative_text) = NarrMax

\* C9: for every currency and every amount representable at the currency's places,
\* _amount_to_decimal(_decimal_to_int(a)) = a; 10.00 EUR is 1000 minor units.
C9_RoundTrip ==
    /\ (res.op = "_amount_to_decimal" /\ Representable(amount, event.currency)) =>
          DecEq(dec, amount)
    /\ (d.request = "authorization" /\ event.currency = "EUR" /\ DecEq(amount, TenEuro)) =>
          d.amount = 1000

\* a round trip at three places, of an amount written with fewer digits
C9_Witness ==
    /\ res.op = "_amount_to_decimal"
    /\ event.currency = "BHD"
    /\ amount = [coef |-> 105, exp |-> 1]
    /\ d.amount = 10500
    /\ dec = [coef |-> 10500, exp |-> 3]

\* C10: for every response with Status ERROR execute_payment raises the declined
\* PaymentException whose message is Error.CustomerMessage if present, else the
\* top-level ErrorMessage if present, else "Unknown error", whichever of the Error
\* object, CustomerMessage and ErrorMessage are present.
C10_DeclineMessage ==
    (ParsedReply /\ res.reply.Status = "ERROR") =>
        /\ res.exc = "PaymentException"
        /\ res.msg = DeclinedMsg(IF res.reply.Error = "cm" THEN CustomerMessage
                                 ELSE IF res.reply.ErrorMessage = "em" THEN ErrorMessage
                                 ELSE "Unknown error")

\* the card token was absent from (or empty in) the session the handler started with
TokenAbsent == SessionGet(res.pre, "payment_payone_pseudocardpan", "") = ""

\* C11: for the credit card, with no card token in the session, the condition is a
\* recoverable "session not ready" result and no gateway call is made:
\* payment_is_valid_session is false, payment_prepare without a posted token returns
\* False with a warning, and execute_payment ends without a POST and without a raw
\* exception.
C11_SessionNotReady ==
    (method = "creditcard" /\ TokenAbsent) =>
        /\ res.op = "payment_is_valid_session" => res.retkind = "False"
        /\ (res.op = "payment_prepare"
            /\ SessionGet(session, "payment_payone_pseudocardpan", "") = "") =>
              res.exc = "none" /\ res.retkind = "False" /\ res.msg = <<"warning-javascript">>
        /\ res.op = "execute_payment" =>
              ~res.posted /\ res.exc \in {"none", "PaymentException"}

\* C12: for every parsed gateway response, whatever its Status, the response is
\* stored as the payment's info before anything else is done with it, so that the
\* payment's info is that response when execute_payment has ended.
C12_InfoIsReply ==
    ParsedReply => pay_info = [fmt |-> "json", data |-> res.reply]

\* a declined response whose handling ended in a raw exception, stored all the same
C12_Witness ==
    /\ ParsedReply
    /\ res.reply.Status = "ERROR" /\ res.reply.Error = "absent"
    /\ res.exc = "KeyError"
    /\ pay_state = "failed"
    /\ pay_info = [fmt |-> "json", data |-> res.reply]

Edges ==
    {<<"created", "confirmed">>, <<"created", "pending">>, <<"created", "failed">>,
     <<"pending", "confirmed">>, <<"pending", "failed">>}

\* C13: whatever execute_payment calls and return or webhook deliveries happen, the
\* payment's state changes only along Created -> {Confirmed, Pending, Failed} and
\* Pending -> {Confirmed, Failed}; it is never moved back to Created.
C13_OnlyEdges ==
    [][pay_state' = pay_state \/ <<pay_state, pay_state'>> \in Edges]_vars

SessionSecret(sess) == SessionGet(sess, "payment_payone_order_secret", "None")

\* C14: execute_payment writes the order's secret into the session exactly when the
\* gateway answers REDIRECT; hence a return request in that session for that order
\* passes the session-secret check and is sent to the order page, while one for
\* another order, or in a session that got no REDIRECT, is treated as a session
\* mismatch (sent to the event index with an error message).
C14_SecretOnRedirect ==
    /\ res.op = "execute_payment" =>
          IF ParsedReply /\ res.reply.Status = "REDIRECT"
          THEN SessionSecret(session) = Secret("A")
          ELSE SessionSecret(session) = SessionSecret(res.pre)
    /\ (res.op = "return" /\ ~UnknownOrder /\ ~WrongHash /\ ~WrongPayment) =>
          IF SessionSecret(res.pre) = Secret(res.req.order)
          THEN /\ res.response = "302"
               /\ SubSeq(res.location, 1, 3) = OrderPage(res.req.order)
          ELSE /\ res.response = "302"
               /\ res.location = EventIndex
               /\ res.msg = <<"error-session">>
====
